---- MODULE Spec2Model ----
(***************************************************************************)
(* Model of HealthBot/app.py: the drug-label lookup (get_fda_drug_info),   *)
(* the prompt composition and completion call (get_ai_response) and the    *)
(* two button handlers that route between them.                            *)
(*                                                                         *)
(* Python strings are TLA+ strings.  JSON values are tagged records        *)
(* [t, v]; a Python exception is the value Raise.  One run of the script   *)
(* (one button press) is one action; the outbound calls it makes are       *)
(* logged, in order, in `trace`, and what it renders in `screen`.          *)
(***************************************************************************)
EXTENDS Integers, Sequences, FiniteSets, TLC

VARIABLES api_key, in_secrets, act, inp, http, llm, trace, screen, raised

vars == <<api_key, in_secrets, act, inp, http, llm, trace, screen, raised>>

-----------------------------------------------------------------------------
(* Bounds of the model *)

\* warnings texts have lengths WarnCut - 1 .. WarnCut + MaxOver
MaxOver == 2
\* the payloads of OtherPayloads that also arrive under an error status
ErrorPayloads == 4
\* ages entered are MinAge .. MinAge + AgeSpan, the default and MaxAge
AgeSpan == 1

-----------------------------------------------------------------------------
(* Python values *)

None == [py |-> "None"]
Raise == [t |-> "raise"]

JDict(f) == [t |-> "dict", v |-> f]
JList(s) == [t |-> "list", v |-> s]
JStr(s) == [t |-> "str", v |-> s]
JNum(n) == [t |-> "num", v |-> n]

IsRaise(x) == x.t = "raise"

\* the characters of string s from position lo to hi, 1-based, clipped
Mid(s, lo, hi) == SubSeq(s, lo, IF hi > Len(s) THEN Len(s) ELSE hi)

\* Python: needle in hay, for two strings
Contains(hay, needle) ==
    \E i \in 0..(Len(hay) - Len(needle)) : SubSeq(hay, i + 1, i + Len(needle)) = needle

\* faulty variant: the membership test never succeeds
PyInNever(key, data) == FALSE

\* Python: key in data, where it does not raise
PyIn(key, data) ==
    CASE data.t = "dict" -> key \in DOMAIN data.v
      [] data.t = "list" -> \E i \in 1..Len(data.v) : data.v[i] = JStr(key)
      [] data.t = "str" -> Contains(data.v, key)
      [] OTHER -> FALSE

\* Python: key in data raises TypeError (data is not a container)
PyInRaises(data) == data.t \notin {"dict", "list", "str"}

\* Python: data[key] for a string key
ItemByKey(data, key) ==
    CASE data.t = "raise" -> Raise
      [] data.t = "dict" -> IF key \in DOMAIN data.v THEN data.v[key] ELSE Raise
      [] OTHER -> Raise

\* Python: data[0]
ItemZero(data) ==
    CASE data.t = "raise" -> Raise
      [] data.t = "list" -> IF Len(data.v) > 0 THEN data.v[1] ELSE Raise
      [] data.t = "str" -> IF Len(data.v) > 0 THEN JStr(SubSeq(data.v, 1, 1)) ELSE Raise
      [] OTHER -> Raise

\* Python: data.get(key, default)
DictGet(data, key, default) ==
    CASE data.t = "raise" -> Raise
      [] data.t = "dict" -> IF key \in DOMAIN data.v THEN data.v[key] ELSE default
      [] OTHER -> Raise

\* faulty variant: the slice keeps one item too many
SliceToOneMore(data, n) ==
    CASE data.t = "raise" -> Raise
      [] data.t = "str" -> JStr(Mid(data.v, 1, n + 1))
      [] data.t = "list" -> JList(SubSeq(data.v, 1, IF n + 1 > Len(data.v) THEN Len(data.v) ELSE n + 1))
      [] OTHER -> Raise

\* Python: data[:n]
SliceTo(data, n) ==
    CASE data.t = "raise" -> Raise
      [] data.t = "str" -> JStr(Mid(data.v, 1, n))
      [] data.t = "list" -> JList(SubSeq(data.v, 1, IF n > Len(data.v) THEN Len(data.v) ELSE n))
      [] OTHER -> Raise

-----------------------------------------------------------------------------
(* get_fda_drug_info *)

FdaSource == "Official US FDA Database"
NotListed == JList(<<JStr("Not Listed")>>)
WarnCut == 1000

\* requests.get(...) followed by response.json(): the parsed payload, or
\* Raise when the transport fails or the body is not JSON.  The status code
\* of the response is not read.
response_json(h) ==
    IF h.kind = "transport_error" THEN Raise
    ELSE IF ~h.parseable THEN Raise
    ELSE h.data

get_fda_drug_info(h) ==
    LET data == response_json(h)
    IN  IF IsRaise(data) THEN None
        ELSE IF PyInRaises(data) THEN None
        ELSE IF PyIn("error", data) THEN None
        ELSE LET result == ItemZero(ItemByKey(data, "results"))
                 purpose == ItemZero(DictGet(result, "purpose", NotListed))
                 indications == ItemZero(DictGet(result, "indications_and_usage", NotListed))
                 warnings == SliceTo(ItemZero(DictGet(result, "warnings", NotListed)), WarnCut)
             IN  IF IsRaise(purpose) \/ IsRaise(indications) \/ IsRaise(warnings)
                 THEN None
                 ELSE [purpose |-> purpose.v,
                       indications |-> indications.v,
                       warnings |-> warnings.v,
                       source |-> FdaSource]

-----------------------------------------------------------------------------
(* get_ai_response *)

KeyMessage == "Please enter your API Key in the sidebar first!"

SystemWithContext ==
    "You are a helpful pharmacist. Explain this technical medical data in simple English for a patient."

SystemNoContext ==
    "\n        You are an expert pharmacist familiar with international medicines, including Indian brands (like Dolo, Saridon, Pan D).\n        1. Identify the active ingredients in the drug name provided.\n        2. Explain its uses and side effects.\n        3. Provide a warning: \"Information based on general knowledge, check the strip pack.\"\n        "

SystemSymptom ==
    "\n        You are a senior medical triage nurse.\n        1. Ask follow-up questions if the user's description is too vague.\n        2. Identify if this is an emergency (Heart attack, Stroke, Anaphylaxis).\n        3. Suggest specialist doctors (e.g., 'See a Gastroenterologist').\n        4. Suggest supportive home care (hydration, rest).\n        5. DISCLAIMER: Always state you are an AI, not a doctor.\n        "

\* repr() of the characters lo..hi of s inside quotes q
RECURSIVE Escaped(_, _, _, _)
Escaped(s, q, lo, hi) ==
    IF lo > hi THEN ""
    ELSE IF lo = hi
         THEN LET c == SubSeq(s, lo, lo)
              IN  CASE c = "\\" -> "\\\\"
                    [] c = "\n" -> "\\n"
                    [] c = q -> "\\" \o q
                    [] OTHER -> c
         ELSE LET mid == (lo + hi) \div 2
              IN  Escaped(s, q, lo, mid) \o Escaped(s, q, mid + 1, hi)

\* Python: repr(s) of a string
PyRepr(s) ==
    LET q == IF Contains(s, "'") /\ ~Contains(s, "\"") THEN "\"" ELSE "'"
    IN  q \o Escaped(s, q, 1, Len(s)) \o q

\* Python: str(x) of None or of the dict get_fda_drug_info builds
PyStr(x) ==
    IF x = None THEN "None"
    ELSE "{'source': " \o PyRepr(x.source)
         \o ", 'purpose': " \o PyRepr(x.purpose)
         \o ", 'indications': " \o PyRepr(x.indications)
         \o ", 'warnings': " \o PyRepr(x.warnings) \o "}"

\* faulty variant: the fallback branch sends the bare drug name
composeBareName(user_query, context_data, mode) ==
    IF mode = "drug_with_context"
    THEN <<SystemWithContext,
           "Official Data: " \o PyStr(context_data) \o "\n\nUser Question: " \o user_query>>
    ELSE IF mode = "drug_no_context"
    THEN <<SystemNoContext, user_query>>
    ELSE <<SystemSymptom, user_query>>

\* the branch on mode: <<system_text, input_text>>
compose(user_query, context_data, mode) ==
    IF mode = "drug_with_context"
    THEN <<SystemWithContext,
           "Official Data: " \o PyStr(context_data) \o "\n\nUser Question: " \o user_query>>
    ELSE IF mode = "drug_no_context"
    THEN <<SystemNoContext, "Explain the medicine: " \o user_query>>
    ELSE <<SystemSymptom, user_query>>

\* ChatPromptTemplate.from_messages(...): each message is a role and a
\* template, a template a sequence of literal texts and variables
prompt ==
    <<[role |-> "system", template |-> <<[var |-> TRUE, text |-> "system_instruction"]>>],
      [role |-> "human", template |-> <<[var |-> TRUE, text |-> "user_input"]>>]>>

RECURSIVE Fill(_, _)
Fill(template, values) ==
    IF template = <<>> THEN ""
    ELSE LET part == Head(template)
         IN  (IF part.var THEN values[part.text] ELSE part.text)
             \o Fill(Tail(template), values)

\* the messages chain.invoke sends for the given variable values
format_messages(values) ==
    [i \in 1..Len(prompt) |->
        [role |-> prompt[i].role, content |-> Fill(prompt[i].template, values)]]

\* faulty variant: the credential check never fires
NoKeyNever(key) == FALSE

\* Python: `not api_key`
NoKey(key) == key = ""

\* get_ai_response with the module-level api_key `key` and the outcome
\* `outcome` of the completion call: what it returns, whether it raised,
\* and the calls it made.
get_ai_response(key, user_query, context_data, mode, outcome) ==
    LET entry == [user_query |-> user_query, context_data |-> context_data,
                  mode |-> mode, ev |-> "get_ai_response"]
    IN  IF NoKey(key)
        THEN [raised |-> FALSE, value |-> KeyMessage, events |-> <<entry>>]
        ELSE LET texts == compose(user_query, context_data, mode)
                 sent == [ev |-> "invoke", model_name |-> "llama-3.3-70b-versatile",
                          temperature |-> 0,
                          messages |-> format_messages(
                              [system_instruction |-> texts[1], user_input |-> texts[2]])]
             IN  IF outcome.kind = "ok"
                 THEN [raised |-> FALSE, value |-> outcome.content,
                       events |-> <<entry, sent>>]
                 ELSE [raised |-> TRUE, value |-> "", events |-> <<entry, sent>>]

-----------------------------------------------------------------------------
(* Inputs: what the user types and what the two services answer *)

MinAge == 1
MaxAge == 120
DefaultAge == 25

Ages == (MinAge..(MinAge + AgeSpan)) \cup {DefaultAge, MaxAge}
Genders == {"Male", "Female", "Other"}
SymptomTexts == {"", "fever and chills", "it's a \"dull\" headache"}
DrugNames == {"", "Advil", "Dolo 650"}
TypedKeys == {"", "gsk_typed"}
SecretKey == "gsk_secret"

NoHttp == [kind |-> "none"]
NoLlm == [kind |-> "none"]
LlmOutcomes == {[kind |-> "ok", content |-> "Take rest and drink water."],
                [kind |-> "error"]}

\* a text of n characters, the i-th being the (i mod 3)-th of "abc"
RECURSIVE Text(_, _)
Text(lo, hi) ==
    IF lo > hi THEN ""
    ELSE IF lo = hi THEN SubSeq("abc", (lo % 3) + 1, (lo % 3) + 1)
    ELSE LET mid == (lo + hi) \div 2 IN Text(lo, mid) \o Text(mid + 1, hi)

Absent == [t |-> "absent"]

PurposeFields == <<Absent, JList(<<>>), JList(<<JStr("pain reliever")>>)>>
IndicationFields == <<Absent, JList(<<JStr("for the patient's fever"), JStr("second")>>)>>
WarningFields ==
    <<Absent, JList(<<>>), JList(<<JStr("line one\nline two")>>), JList(<<JNum(5)>>)>>

\* warnings of WarnCut - 1 .. WarnCut + MaxOver characters
LongWarningFields ==
    [i \in 1..(MaxOver + 2) |-> JList(<<JStr(Text(1, WarnCut - 2 + i)), JStr("more")>>)]

\* one entry of "results" with the three label fields given or absent
LabelEntry(p, i, w) ==
    LET given == [purpose |-> p, indications_and_usage |-> i, warnings |-> w]
        keys == {k \in DOMAIN given : given[k].t # "absent"}
    IN  JDict([k \in keys \cup {"id"} |-> IF k = "id" THEN JStr("label") ELSE given[k]])

LabelEntries ==
    [n \in 1..(Len(PurposeFields) * Len(IndicationFields) * Len(WarningFields)) |->
        LET a == (n - 1) % Len(PurposeFields)
            b == ((n - 1) \div Len(PurposeFields)) % Len(IndicationFields)
            c == (n - 1) \div (Len(PurposeFields) * Len(IndicationFields))
        IN  LabelEntry(PurposeFields[a + 1], IndicationFields[b + 1], WarningFields[c + 1])]
    \o [i \in 1..Len(LongWarningFields) |->
           LabelEntry(PurposeFields[3], Absent, LongWarningFields[i])]

FullEntry == LabelEntry(PurposeFields[3], IndicationFields[2], WarningFields[3])

OtherPayloads ==
    <<JDict([results |-> JList(<<FullEntry>>)]),
      JDict([error |-> JDict([code |-> JStr("NOT_FOUND")])]),
      JDict([error |-> JStr("down"), results |-> JList(<<FullEntry>>)]),
      JDict([results |-> JList(<<>>)]),
      JDict([meta |-> JStr("none")]),
      JDict([results |-> JNum(1)]),
      JDict([results |-> JList(<<JStr("label")>>)]),
      JDict([results |-> JList(<<LabelEntries[1], FullEntry>>)]),
      JDict([results |-> JList(<<LabelEntry(Absent, JNum(3), Absent)>>)]),
      JList(<<>>),
      JList(<<JStr("error")>>),
      JStr("internal error"),
      JStr("ok"),
      JNum(0)>>

Payloads == [n \in 1..Len(LabelEntries) |-> JDict([results |-> JList(<<LabelEntries[n]>>)])]
            \o OtherPayloads

Statuses == {200, 404, 500}
ErrorStatuses == {st \in Statuses : st \notin 200..299}

\* the outcomes of the HTTP GET: no response at all, a body that is not
\* JSON, or a JSON payload; an error status comes with the first
\* ErrorPayloads of OtherPayloads
HttpOutcomes ==
    {[kind |-> "transport_error"]}
    \cup {[kind |-> "response", parseable |-> FALSE, status |-> st] :
             st \in Statuses}
    \cup {[data |-> Payloads[n], kind |-> "response", parseable |-> TRUE, status |-> st] :
             st \in Statuses \ ErrorStatuses, n \in 1..Len(Payloads)}
    \cup {[data |-> OtherPayloads[n], kind |-> "response", parseable |-> TRUE, status |-> st] :
             st \in ErrorStatuses, n \in 1..ErrorPayloads}

-----------------------------------------------------------------------------
(* The script: session start and the button handlers *)

\* faulty variant: the test is inverted
TruthyInverted(x) == x = None

\* Python: the truth value of None or of a dict
Truthy(x) == x # None /\ DOMAIN x # {}

\* faulty variant: the input is never taken to be empty
NonEmptyAlways(s) == TRUE

\* Python: the truth value of a string (`if symptoms:`, `if drug_name:`)
NonEmpty(s) == s # ""

Digit(d) == SubSeq("0123456789", d + 1, d + 1)

\* the f-string rendering {age} of a non-negative int
RECURSIVE IntToStr(_)
IntToStr(n) == IF n < 10 THEN Digit(n) ELSE IntToStr(n \div 10) \o Digit(n % 10)

Shown(widget, body, data) == [data |-> data, w |-> widget, body |-> body]

fda_url(drug_name) ==
    "https://api.fda.gov/drug/label.json"
    \o "?search=openfda.brand_name:\"" \o drug_name \o "\"&limit=1"

\* faulty variant: the symptom flow asks the drug-label source first
analyze_symptoms_with_lookup(key, age, gender, symptoms, outcome) ==
    IF NonEmpty(symptoms)
    THEN LET full_query == "Age: " \o IntToStr(age) \o ", Gender: " \o gender
                           \o ", Symptoms: " \o symptoms
             real_data == get_fda_drug_info([kind |-> "transport_error"])
             looked == [ev |-> "lookup", drug_name |-> symptoms,
                        url |-> fda_url(symptoms), returned |-> real_data]
             r == get_ai_response(key, full_query, None, "symptom", outcome)
         IN  [screen |-> IF r.raised THEN <<>> ELSE <<Shown("markdown", r.value, None)>>,
              raised |-> r.raised,
              events |-> <<looked>> \o r.events]
    ELSE [screen |-> <<Shown("warning", "Please enter symptoms.", None)>>,
          raised |-> FALSE,
          events |-> <<>>]

\* the body of `if st.button("Analyze Symptoms")`: the calls made, what is
\* rendered, and whether an exception left the handler
analyze_symptoms(key, age, gender, symptoms, outcome) ==
    IF NonEmpty(symptoms)
    THEN LET full_query == "Age: " \o IntToStr(age) \o ", Gender: " \o gender
                           \o ", Symptoms: " \o symptoms
             r == get_ai_response(key, full_query, None, "symptom", outcome)
         IN  [screen |-> IF r.raised THEN <<>> ELSE <<Shown("markdown", r.value, None)>>,
              raised |-> r.raised,
              events |-> r.events]
    ELSE [screen |-> <<Shown("warning", "Please enter symptoms.", None)>>,
          raised |-> FALSE,
          events |-> <<>>]

\* faulty variant: after the answer from the official data, the fallback
\* is asked as well
get_medicine_details_blended(key, drug_name, h, outcome) ==
    IF NonEmpty(drug_name)
    THEN LET real_data == get_fda_drug_info(h)
             looked == [ev |-> "lookup", drug_name |-> drug_name,
                        url |-> fda_url(drug_name), returned |-> real_data]
             r == get_ai_response(key, "Explain " \o drug_name, real_data,
                                  "drug_with_context", outcome)
             f == get_ai_response(key, drug_name, None, "drug_no_context", outcome)
         IN  IF Truthy(real_data)
             THEN [screen |-> IF r.raised THEN <<>>
                              ELSE <<Shown("write", r.value, None), Shown("write", f.value, None)>>,
                   raised |-> r.raised,
                   events |-> <<looked>> \o r.events \o f.events]
             ELSE [screen |-> IF f.raised THEN <<>> ELSE <<Shown("write", f.value, None)>>,
                   raised |-> f.raised,
                   events |-> <<looked>> \o f.events]
    ELSE [screen |-> <<>>, raised |-> FALSE, events |-> <<>>]

\* the body of `if st.button("Get Medicine Details")`
get_medicine_details(key, drug_name, h, outcome) ==
    IF NonEmpty(drug_name)
    THEN LET real_data == get_fda_drug_info(h)
             looked == [ev |-> "lookup", drug_name |-> drug_name,
                        url |-> fda_url(drug_name), returned |-> real_data]
         IN  IF Truthy(real_data)
             THEN LET r == get_ai_response(key, "Explain " \o drug_name, real_data,
                                           "drug_with_context", outcome)
                  IN  [screen |-> <<Shown("success", "Found in Official FDA Database", None)>>
                                  \o (IF r.raised THEN <<>>
                                      ELSE <<Shown("write", r.value, None),
                                             Shown("expander", "View Technical Data", None),
                                             Shown("json", "", real_data)>>),
                       raised |-> r.raised,
                       events |-> <<looked>> \o r.events]
             ELSE LET r == get_ai_response(key, drug_name, None, "drug_no_context", outcome)
                  IN  [screen |-> <<Shown("info",
                                     "Not in US Database. Searching AI Knowledge Base (Good for Indian Brands)...",
                                     None)>>
                                  \o (IF r.raised THEN <<>> ELSE <<Shown("write", r.value, None)>>),
                       raised |-> r.raised,
                       events |-> <<looked>> \o r.events]
    ELSE [screen |-> <<>>, raised |-> FALSE, events |-> <<>>]

HasEvent(events, kind) == \E i \in 1..Len(events) : events[i].ev = kind

NoInput == [drug_name |-> "", age |-> DefaultAge, gender |-> "Male", symptoms |-> ""]

Init ==
    /\ in_secrets \in BOOLEAN
    /\ api_key = IF in_secrets THEN SecretKey ELSE ""
    /\ act = "start"
    /\ inp = NoInput
    /\ http = NoHttp
    /\ llm = NoLlm
    /\ trace = <<>>
    /\ screen = <<>>
    /\ raised = FALSE

\* the sidebar text input, shown only when the key is not in the secrets;
\* the script reruns with no button pressed
EnterApiKey ==
    /\ ~in_secrets
    /\ \E k \in TypedKeys : api_key' = k
    /\ act' = "EnterApiKey"
    /\ inp' = NoInput
    /\ http' = NoHttp
    /\ llm' = NoLlm
    /\ trace' = <<>>
    /\ screen' = <<>>
    /\ raised' = FALSE
    /\ UNCHANGED in_secrets

AnalyzeSymptoms ==
    \E age \in Ages, gender \in Genders, symptoms \in SymptomTexts, o \in LlmOutcomes :
        \E run \in {analyze_symptoms(api_key, age, gender, symptoms, o)} :
            /\ act' = "AnalyzeSymptoms"
            /\ inp' = [drug_name |-> "", age |-> age, gender |-> gender, symptoms |-> symptoms]
            /\ http' = NoHttp
            /\ llm' = IF HasEvent(run.events, "invoke") THEN o ELSE NoLlm
            /\ trace' = run.events
            /\ screen' = run.screen
            /\ raised' = run.raised
            /\ UNCHANGED <<api_key, in_secrets>>

GetMedicineDetails ==
    \E drug_name \in DrugNames, h \in HttpOutcomes, o \in LlmOutcomes :
        \E run \in {get_medicine_details(api_key, drug_name, h, o)} :
            /\ act' = "GetMedicineDetails"
            /\ inp' = [drug_name |-> drug_name, age |-> DefaultAge, gender |-> "Male",
                       symptoms |-> ""]
            /\ http' = IF HasEvent(run.events, "lookup") THEN h ELSE NoHttp
            /\ llm' = IF HasEvent(run.events, "invoke") THEN o ELSE NoLlm
            /\ trace' = run.events
            /\ screen' = run.screen
            /\ raised' = run.raised
            /\ UNCHANGED <<api_key, in_secrets>>

Next == EnterApiKey \/ AnalyzeSymptoms \/ GetMedicineDetails

Spec == Init /\ [][Next]_vars

TypeOK ==
    /\ act \in {"start", "EnterApiKey", "AnalyzeSymptoms", "GetMedicineDetails"}
    /\ raised \in BOOLEAN
    /\ api_key \in TypedKeys \cup {SecretKey}

-----------------------------------------------------------------------------
(* Properties.  The state is that of the last run of the script: `act` and *)
(* `inp` say what was pressed with which inputs, `trace` holds the calls   *)
(* the run made, in order, `http` and `llm` what the two services answered.*)

EventsOf(kind) == {i \in 1..Len(trace) : trace[i].ev = kind}

SymptomRun == act = "AnalyzeSymptoms" /\ inp.symptoms # ""
MedicineRun == act = "GetMedicineDetails" /\ inp.drug_name # ""

Modes == {"symptom", "drug_with_context", "drug_no_context"}

\* the text s ends with the text e
EndsWith(s, e) == Len(e) <= Len(s) /\ SubSeq(s, Len(s) - Len(e) + 1, Len(s)) = e

\* C1: in the medicine flow the lookup comes before any completion call, and
\* the mode of the request is decided by what the lookup returned alone: a
\* record gives drug_with_context with that record attached, and
\* drug_no_context is used exactly when the lookup returned None.
C1_LookupDecidesMode ==
    MedicineRun =>
        /\ Len(trace) >= 2
        /\ trace[1].ev = "lookup"
        /\ trace[1].drug_name = inp.drug_name
        /\ trace[2].ev = "get_ai_response"
        /\ \A i \in EventsOf("get_ai_response") :
              /\ i > 1
              /\ trace[1].returned # None =>
                    /\ trace[i].mode = "drug_with_context"
                    /\ trace[i].context_data = trace[1].returned
              /\ trace[1].returned = None =>
                    /\ trace[i].mode = "drug_no_context"
                    /\ trace[i].context_data = None
        /\ \A i \in EventsOf("invoke") : i > 1

C1_Witness ==
    /\ MedicineRun
    /\ trace[1].returned # None
    /\ Len(trace) = 3
    /\ trace[2].mode = "drug_with_context"

\* what the HTTP GET of the last lookup came to
TransportFailed == http.kind = "transport_error"
Non2xx == http.kind = "response" /\ http.status \notin 200..299
Unparseable == http.kind = "response" /\ ~http.parseable
Parsed == http.kind = "response" /\ http.parseable
HasErrorIndicator == Parsed /\ http.data.t = "dict" /\ "error" \in DOMAIN http.data.v
HasResultsList ==
    /\ Parsed
    /\ http.data.t = "dict"
    /\ "results" \in DOMAIN http.data.v
    /\ http.data.v["results"].t = "list"
EmptyResults == HasResultsList /\ Len(http.data.v["results"].v) = 0

C3_NoKeyNoCompletion ==
    api_key = "" =>
        /\ EventsOf("invoke") = {}
        /\ llm = NoLlm
        /\ ~raised
        /\ EventsOf("get_ai_response") # {} =>
              /\ trace[Len(trace)].ev = "get_ai_response"
              /\ \E j \in 1..Len(screen) :
                    screen[j].body = "Please enter your API Key in the sidebar first!"

C3_Witness ==
    /\ api_key = ""
    /\ MedicineRun
    /\ Len(trace) = 2
    /\ trace[2].ev = "get_ai_response"
    /\ trace[2].mode = "drug_with_context"

\* C4 as stated: no exception leaves a button handler, and every action with
\* a non-empty input ends with some text shown.
C4_Original ==
    (SymptomRun \/ MedicineRun) =>
        /\ ~raised
        /\ \E j \in 1..Len(screen) :
              screen[j].w \in {"markdown", "write"} /\ screen[j].body # ""

\* C5 as stated: with the API key missing an action shows the key message
\* and nothing else of the flow.
C5_Original ==
    (api_key = "" /\ (SymptomRun \/ MedicineRun)) =>
        /\ ~raised
        /\ Len(screen) = 1
        /\ screen[1].body = "Please enter your API Key in the sidebar first!"

\* the first entry of the results list of the payload
FirstResult == http.data.v["results"].v[1]

\* the text the record must hold for the label field `key`
FirstOfField(key) ==
    IF key \in DOMAIN FirstResult.v THEN FirstResult.v[key].v[1].v ELSE "Not Listed"

\* C6: a record returned by the lookup has exactly the fields source,
\* purpose, indications and warnings; source is the fixed label; each field
\* is the first text of that field of the first result, or "Not Listed"
\* where the result has no such field; warnings is the first 1000
\* characters of the first warnings text.
C6_RecordShape ==
    \A i \in EventsOf("lookup") :
        LET r == trace[i].returned
        IN  r # None =>
              /\ DOMAIN r = {"source", "purpose", "indications", "warnings"}
              /\ r.source = "Official US FDA Database"
              /\ HasResultsList
              /\ Len(http.data.v["results"].v) > 0
              /\ r.purpose = FirstOfField("purpose")
              /\ r.indications = FirstOfField("indications_and_usage")
              /\ Len(r.warnings) <= 1000
              /\ LET orig == FirstOfField("warnings")
                 IN  r.warnings = SubSeq(orig, 1, IF Len(orig) > 1000 THEN 1000 ELSE Len(orig))

C6_Witness ==
    /\ MedicineRun
    /\ trace[1].returned # None
    /\ Len(FirstOfField("warnings")) > 1000
    /\ Len(trace[1].returned.warnings) = 1000
    /\ "indications_and_usage" \notin DOMAIN FirstResult.v
    /\ trace[1].returned.indications = "Not Listed"

\* the system instruction of each mode
SystemOf(mode) ==
    CASE mode = "symptom" -> SystemSymptom
      [] mode = "drug_with_context" -> SystemWithContext
      [] mode = "drug_no_context" -> SystemNoContext

\* the text holds the serialization ser and, after it, ends with question q
SerializationThenQuestion(text, ser, q) ==
    /\ EndsWith(text, q)
    /\ \E k \in 0..(Len(text) - Len(q) - Len(ser)) : SubSeq(text, k + 1, k + Len(ser)) = ser

\* C7: every request has one of the three modes; the messages the
\* completion call receives are the system instruction of the mode, whatever
\* the query and the record, and a user content that is the query itself
\* (symptom), "Explain the medicine: " and the query (drug_no_context), or a
\* text with the serialized record followed by the question
\* (drug_with_context).
C7_MessagesByMode ==
    /\ \A i \in EventsOf("get_ai_response") : trace[i].mode \in Modes
    /\ \A i \in EventsOf("invoke") :
          LET req == trace[i - 1]
              msgs == trace[i].messages
          IN  /\ req.ev = "get_ai_response"
              /\ Len(msgs) = 2
              /\ msgs[1].role = "system"
              /\ msgs[1].content = SystemOf(req.mode)
              /\ msgs[2].role = "human"
              /\ req.mode = "symptom" => msgs[2].content = req.user_query
              /\ req.mode = "drug_no_context" =>
                    msgs[2].content = "Explain the medicine: " \o req.user_query
              /\ req.mode = "drug_with_context" =>
                    SerializationThenQuestion(msgs[2].content, PyStr(req.context_data),
                                              req.user_query)

C7_Witness ==
    /\ MedicineRun
    /\ Len(trace) = 3
    /\ trace[2].mode = "drug_with_context"
    /\ Len(trace[2].context_data.warnings) = 1000
    /\ trace[3].ev = "invoke"

\* the kinds of the calls of the run, in order
Kinds == [i \in 1..Len(trace) |-> trace[i].ev]

\* C8: one run makes at most one lookup and at most one completion call, one
\* after the other, the lookup first; a run with a non-empty input calls
\* get_ai_response exactly once, in one mode, and nothing follows the
\* completion call.
C8_OneCallEach ==
    /\ Kinds \in {<<>>,
                  <<"get_ai_response">>,
                  <<"get_ai_response", "invoke">>,
                  <<"lookup", "get_ai_response">>,
                  <<"lookup", "get_ai_response", "invoke">>}
    /\ (SymptomRun \/ MedicineRun) => Cardinality(EventsOf("get_ai_response")) = 1

C8_Witness ==
    /\ MedicineRun
    /\ Kinds = <<"lookup", "get_ai_response", "invoke">>
    /\ ~raised

\* the number a decimal numeral stands for, -1 if it is no numeral
RECURSIVE ParseDec(_)
ParseDec(s) ==
    IF Len(s) = 0 THEN -1
    ELSE LET last == SubSeq(s, Len(s), Len(s))
             ds == {d \in 0..9 : SubSeq("0123456789", d + 1, d + 1) = last}
         IN  IF ds = {} THEN -1
             ELSE LET d == CHOOSE x \in ds : TRUE
                  IN  IF Len(s) = 1 THEN d
                      ELSE LET rest == ParseDec(SubSeq(s, 1, Len(s) - 1))
                           IN  IF rest < 1 THEN -1 ELSE 10 * rest + d

\* the text is "Age: <age>, Gender: <gender>, Symptoms: <symptoms>"
IsFullQuery(text, age, gender, symptoms) ==
    \E n \in 1..3 :
        LET numeral == SubSeq(text, 6, 5 + n)
        IN  /\ Len(text) >= 5 + n
            /\ ParseDec(numeral) = age
            /\ text = "Age: " \o numeral \o ", Gender: " \o gender
                      \o ", Symptoms: " \o symptoms

C10_EmptyInputNoCall ==
    /\ (act = "AnalyzeSymptoms" /\ inp.symptoms = "") => Len(trace) = 0
    /\ (act = "GetMedicineDetails" /\ inp.drug_name = "") => Len(trace) = 0
    /\ \A i \in EventsOf("lookup") : trace[i].drug_name # ""
    /\ \A i \in EventsOf("get_ai_response") : trace[i].user_query # ""

C10_Witness ==
    /\ act = "GetMedicineDetails"
    /\ inp.drug_name = ""
    /\ Len(trace) = 0
    /\ Len(screen) = 0

====
